---- MODULE Spec2Model ----
(***************************************************************************)
(* A model of the sclink feed store (src/src/store.rs): the account        *)
(* buffer of a price feed, the Feed that with_store derives from it, and   *)
(* the ring-buffer operations insert / latest / fetch.                     *)
(*                                                                         *)
(* Number representation.  The code computes in u32.  A u32 value v is     *)
(* represented by the integer congruent to v modulo 2^32 that lies in      *)
(* (-2^31, 2^31): small values are themselves, and a value that wrapped    *)
(* below zero (2^32 - k) is the negative integer -k.  With this            *)
(* representation wrapping subtraction is integer subtraction, and the     *)
(* unsigned order is U32Lt.  Ring slots are numbered from 0 as in the      *)
(* code; slot i of a ring is element i + 1 of the sequence modelling it.   *)
(***************************************************************************)
EXTENDS Integers, Sequences, FiniteSets

(* ------------------------------ bounds -------------------------------- *)

\* Largest live_length (live ring capacity) of a modelled feed account.
MaxLive == 3
\* Largest historical ring capacity of a modelled feed account.
MaxHist == 2
\* Largest granularity of a modelled feed account.
MaxGranularity == 2
\* Largest number of insert calls made on the account, over all with_store calls.
MaxInserts == 5
\* Largest number of with_store calls made on the account.
MaxCalls == 2
\* Largest number of leading description bytes that vary; the rest of the
\* field repeats one fill byte.
MaxDescriptionPrefix == 2

(* --------------------------- program constants ------------------------ *)

FEED_VERSION == 2

\* The program that owns every feed account.
CHAINLINK_STORE_PROGRAM == "HEvSKofvBgfaexv23kMabbYqxasxU3mQ4ibBMEmJWHny"

\* The length of the description field, in bytes.
DESCRIPTION_LEN == 32

\* The zeroed record: what every ring slot of a freshly allocated buffer holds.
Default == [slot |-> 0, timestamp |-> 0, answer |-> 0]

\* The records handed to insert.  The store never inspects a record, so two
\* distinguishable values (one of them equal to the zeroed slot content)
\* are enough to tell any two slots or any two inserts apart.
Transmission == {Default, [slot |-> 1, timestamp |-> 1, answer |-> 1]}

(* ------------------------------ results ------------------------------- *)

\* Option<Transmission>
None == [kind |-> "None"]
Some(t) == [kind |-> "Some", value |-> t]
\* The call did not return: an arithmetic-overflow or index-out-of-bounds panic.
Panic == [kind |-> "Panic"]
\* Err(ProgramError::InvalidAccountData)
InvalidAccountData == [kind |-> "Err", error |-> "InvalidAccountData"]
\* Ok(()) and ()
Unit == [kind |-> "Unit"]
Ok(v) == [kind |-> "Ok", value |-> v]

\* No Feed exists outside a with_store call.
NoStore == [kind |-> "NoStore"]

\* The records of the last call, kept in ret.
NoCall == [op |-> "none"]
WithStoreCall(result) == [op |-> "with_store", result |-> result]
InsertCall(round) == [op |-> "insert", round |-> round, result |-> Unit]
InsertPanic(round) == [op |-> "insert", round |-> round, result |-> Panic]
LatestCall(result) == [op |-> "latest", result |-> result]
FetchCall(round_id, result) == [op |-> "fetch", round_id |-> round_id, result |-> result]

(* --------------------------- u32 arithmetic --------------------------- *)

\* a < b as unsigned 32-bit values.
U32Lt(a, b) == IF (a < 0) = (b < 0) THEN a < b ELSE b < 0

\* u32::saturating_sub
saturating_sub(a, b) == IF U32Lt(a, b) THEN 0 ELSE a - b

\* a - b in a build without overflow checks.
wrapping_sub(a, b) == a - b

\* Whether the u32 subtraction a - b overflows.
sub_overflows(a, b) == U32Lt(a, b)

\* Whether i, used as a slice index, is inside a slice of the given length.
in_bounds(i, len) == 0 <= i /\ i < len

VARIABLES
    account,          \* the feed account's byte buffer, decoded field by field
    store,            \* the Feed of the with_store call in progress, or NoStore
    pc,               \* "idle", "open" (inside a with_store closure), "panicked"
    ret,              \* the last call and what it returned
    overflow_checks,  \* whether the build panics on integer overflow
    calls,            \* how many with_store calls were started
    inserted,         \* history: the records passed to insert on the current Feed
    returned          \* history: how many records the with_store calls that returned
                      \* inserted, and the last of them

vars == <<account, store, pc, ret, overflow_checks, calls, inserted, returned>>

(* ------------------------------ with_store ---------------------------- *)

\* The header as Transmissions::deserialize reads it from the buffer.
deserialize(acc) ==
    [version |-> acc.version,
     latest_round_id |-> acc.latest_round_id,
     granularity |-> acc.granularity,
     live_length |-> acc.live_length,
     live_cursor |-> acc.live_cursor,
     historical_cursor |-> acc.historical_cursor]

\* The Feed with_store builds: the header deserialized into a fresh Box, and
\* the two ring regions of the buffer copied (to_vec) into fresh vectors.
\* The live ring is the first n records after the header, n the live_length
\* field of the buffer; the historical ring is every record after it.
feed_of(acc) ==
    LET n == acc.live_length
    IN [header |-> deserialize(acc),
        live |-> SubSeq(acc.data, 1, n),
        historical |-> SubSeq(acc.data, n + 1, Len(acc.data))]

(* -------------------------------- insert ------------------------------ *)

\* insert without its first statement: latest_round_id is never incremented.
insert_keeps_id(s, round) ==
    LET latest_round_id == s.header.latest_round_id
        live == [s.live EXCEPT ![s.header.live_cursor + 1] = round]
        live_cursor == (s.header.live_cursor + 1) % Len(s.live)
        admit == latest_round_id % s.header.granularity = 0
        historical ==
            IF admit
            THEN [s.historical EXCEPT ![s.header.historical_cursor + 1] = round]
            ELSE s.historical
        historical_cursor ==
            IF admit
            THEN (s.header.historical_cursor + 1) % Len(s.historical)
            ELSE s.header.historical_cursor
    IN [header |-> [s.header EXCEPT !.latest_round_id = latest_round_id,
                                    !.live_cursor = live_cursor,
                                    !.historical_cursor = historical_cursor],
        live |-> live,
        historical |-> historical]

\* insert with the historical cursor advanced on every insert, admitted to
\* the historical ring or not.
insert_advances_historical_always(s, round) ==
    LET latest_round_id == s.header.latest_round_id + 1
        live == [s.live EXCEPT ![s.header.live_cursor + 1] = round]
        live_cursor == (s.header.live_cursor + 1) % Len(s.live)
        admit == latest_round_id % s.header.granularity = 0
        historical ==
            IF admit
            THEN [s.historical EXCEPT ![s.header.historical_cursor + 1] = round]
            ELSE s.historical
        historical_cursor == (s.header.historical_cursor + 1) % Len(s.historical)
    IN [header |-> [s.header EXCEPT !.latest_round_id = latest_round_id,
                                    !.live_cursor = live_cursor,
                                    !.historical_cursor = historical_cursor],
        live |-> live,
        historical |-> historical]

\* insert with the live cursor advanced before the write instead of after it.
insert_advances_first(s, round) ==
    LET latest_round_id == s.header.latest_round_id + 1
        live_cursor == (s.header.live_cursor + 1) % Len(s.live)
        live == [s.live EXCEPT ![live_cursor + 1] = round]
        admit == latest_round_id % s.header.granularity = 0
        historical ==
            IF admit
            THEN [s.historical EXCEPT ![s.header.historical_cursor + 1] = round]
            ELSE s.historical
        historical_cursor ==
            IF admit
            THEN (s.header.historical_cursor + 1) % Len(s.historical)
            ELSE s.header.historical_cursor
    IN [header |-> [s.header EXCEPT !.latest_round_id = latest_round_id,
                                    !.live_cursor = live_cursor,
                                    !.historical_cursor = historical_cursor],
        live |-> live,
        historical |-> historical]

\* insert with the granularity test made on the id before the increment.
insert_admits_old_id(s, round) ==
    LET latest_round_id == s.header.latest_round_id + 1
        live == [s.live EXCEPT ![s.header.live_cursor + 1] = round]
        live_cursor == (s.header.live_cursor + 1) % Len(s.live)
        admit == s.header.latest_round_id % s.header.granularity = 0
        historical ==
            IF admit
            THEN [s.historical EXCEPT ![s.header.historical_cursor + 1] = round]
            ELSE s.historical
        historical_cursor ==
            IF admit
            THEN (s.header.historical_cursor + 1) % Len(s.historical)
            ELSE s.header.historical_cursor
    IN [header |-> [s.header EXCEPT !.latest_round_id = latest_round_id,
                                    !.live_cursor = live_cursor,
                                    !.historical_cursor = historical_cursor],
        live |-> live,
        historical |-> historical]

\* Feed::insert
insert(s, round) ==
    LET latest_round_id == s.header.latest_round_id + 1
        live == [s.live EXCEPT ![s.header.live_cursor + 1] = round]
        live_cursor == (s.header.live_cursor + 1) % Len(s.live)
        admit == latest_round_id % s.header.granularity = 0
        historical ==
            IF admit
            THEN [s.historical EXCEPT ![s.header.historical_cursor + 1] = round]
            ELSE s.historical
        historical_cursor ==
            IF admit
            THEN (s.header.historical_cursor + 1) % Len(s.historical)
            ELSE s.header.historical_cursor
    IN [header |-> [s.header EXCEPT !.latest_round_id = latest_round_id,
                                    !.live_cursor = live_cursor,
                                    !.historical_cursor = historical_cursor],
        live |-> live,
        historical |-> historical]

(* -------------------------------- latest ------------------------------ *)

\* latest reading the slot at the write cursor instead of the one before it.
latest_at_cursor(s) ==
    IF s.header.latest_round_id = 0
    THEN None
    ELSE LET len == s.header.live_length
             i == s.header.live_cursor % len
         IN IF in_bounds(i, Len(s.live)) THEN Some(s.live[i + 1]) ELSE Panic

\* Feed::latest
latest(s) ==
    IF s.header.latest_round_id = 0
    THEN None
    ELSE LET len == s.header.live_length
             i == (s.header.live_cursor + saturating_sub(len, 1)) % len
         IN IF in_bounds(i, Len(s.live)) THEN Some(s.live[i + 1]) ELSE Panic

(* -------------------------------- fetch ------------------------------- *)

\* cursor.checked_sub(offset).unwrap_or(fallback)
checked_sub_unwrap_or(cursor, offset, fallback) ==
    IF U32Lt(cursor, offset) THEN fallback ELSE cursor - offset

\* The argument of unwrap_or, len - (offset - cursor).  Rust evaluates it
\* before the call, whether or not checked_sub succeeded.
fallback_index(len, offset, cursor) ==
    wrapping_sub(len, wrapping_sub(offset, cursor))

\* Whether one of the two subtractions of the unwrap_or argument overflows.
fallback_overflows(len, offset, cursor) ==
    \/ sub_overflows(offset, cursor)
    \/ sub_overflows(len, wrapping_sub(offset, cursor))

\* Reading ring[index]: a panic when the index is outside the slice.
read_slot(ring, index) ==
    IF in_bounds(index, Len(ring)) THEN Some(ring[index + 1]) ELSE Panic

\* if in live range, fetch from live set
live_start(s) ==
    saturating_sub(s.header.latest_round_id, saturating_sub(Len(s.live), 1))

\* if in historical range, fetch from closest
historical_end(s) ==
    s.header.latest_round_id - (s.header.latest_round_id % s.header.granularity)

historical_start(s) ==
    saturating_sub(historical_end(s),
                   s.header.granularity * saturating_sub(Len(s.historical), 1))

\* The live branch of fetch.
fetch_live(s, round_id, checks) ==
    LET offset == (s.header.latest_round_id - round_id) + 1
        cursor == s.header.live_cursor
        len == Len(s.live)
        index == checked_sub_unwrap_or(cursor, offset,
                                       fallback_index(len, offset, cursor))
    IN IF checks /\ fallback_overflows(len, offset, cursor)
       THEN Panic
       ELSE read_slot(s.live, index)

\* The historical branch of fetch.
fetch_historical(s, round_id, checks) ==
    LET granularity == s.header.granularity
        rounded == round_id - (round_id % granularity)
        offset == ((historical_end(s) - rounded) \div granularity) + 1
        cursor == s.header.historical_cursor
        len == Len(s.historical)
        index == checked_sub_unwrap_or(cursor, offset,
                                       fallback_index(len, offset, cursor))
    IN IF checks /\ fallback_overflows(len, offset, cursor)
       THEN Panic
       ELSE read_slot(s.historical, index)

\* fetch taking latest_round_id + 1 for the newest id, in the early return
\* and in the live range alike.
fetch_through_next_id(s, round_id, checks) ==
    IF s.header.latest_round_id + 1 < round_id
    THEN None
    ELSE IF s.header.granularity = 0
    THEN Panic
    ELSE IF live_start(s) <= round_id /\ round_id <= s.header.latest_round_id + 1
    THEN fetch_live(s, round_id, checks)
    ELSE IF historical_start(s) <= round_id /\ round_id <= historical_end(s)
    THEN fetch_historical(s, round_id, checks)
    ELSE None

\* Feed::fetch.  checks: whether the build panics on integer overflow.
fetch(s, round_id, checks) ==
    IF s.header.latest_round_id < round_id
    THEN None
    ELSE IF s.header.granularity = 0
    THEN Panic
    ELSE IF live_start(s) <= round_id /\ round_id <= s.header.latest_round_id
    THEN fetch_live(s, round_id, checks)
    ELSE IF historical_start(s) <= round_id /\ round_id <= historical_end(s)
    THEN fetch_historical(s, round_id, checks)
    ELSE None

(* ----------------------------- the machine ---------------------------- *)

\* The round ids handed to fetch: 0, every id inserted, and one future id.
RoundIds == 0 .. (MaxInserts + 1)

\* A buffer as the host allocates it: the version byte, zeroed
\* latest_round_id and cursors, and zeroed ring regions holding live_length
\* live records followed by the historical records.  owner is the program
\* the account belongs to (AccountInfo::owner); data holds the whole records
\* that follow the header and slack counts the bytes after the last whole
\* record (fewer than one record's size).
FreshAccount(version, live_length, historical_length, granularity) ==
    [owner |-> CHAINLINK_STORE_PROGRAM,
     version |-> version,
     writer |-> "writer",
     description |-> [i \in 1 .. DESCRIPTION_LEN |-> 0],
     decimals |-> 18,
     slack |-> 0,
     latest_round_id |-> 0,
     granularity |-> granularity,
     live_length |-> live_length,
     live_cursor |-> 0,
     historical_cursor |-> 0,
     data |-> [i \in 1 .. (live_length + historical_length) |-> Default]]

\* No with_store call that inserted has returned yet.
NoneReturned == [count |-> 0]

\* The history of returned inserts after a call that inserted `rounds` returns.
AfterReturn(history, rounds) ==
    IF rounds = << >>
    THEN history
    ELSE [count |-> history.count + Len(rounds), last |-> rounds[Len(rounds)]]

Init ==
    /\ \E version \in {FEED_VERSION - 1, FEED_VERSION},
          live_length \in 1 .. MaxLive,
          historical_length \in 1 .. MaxHist,
          granularity \in 1 .. MaxGranularity :
            account = FreshAccount(version, live_length, historical_length, granularity)
    /\ store = NoStore
    /\ pc = "idle"
    /\ ret = NoCall
    /\ overflow_checks \in BOOLEAN
    /\ calls = 0
    /\ inserted = << >>
    /\ returned = NoneReturned

\* Whether the ring regions cannot be cut out of the buffer: split_at panics
\* when the buffer is shorter than the header plus live_length records, and
\* try_cast_slice(..).unwrap() panics when the bytes after the live ring are
\* not a whole number of records.
malformed(acc) ==
    \/ acc.live_length > Len(acc.data)
    \/ acc.slack # 0

\* with_store, up to the call of the closure: the version check, the split
\* of the buffer and the copies the Feed is made of.
WithStore ==
    /\ pc = "idle"
    /\ calls < MaxCalls
    /\ calls' = calls + 1
    /\ inserted' = << >>
    /\ IF account.version # FEED_VERSION
       THEN /\ ret' = WithStoreCall(InvalidAccountData)
            /\ UNCHANGED <<store, pc>>
       ELSE IF malformed(account)
       THEN /\ ret' = WithStoreCall(Panic)
            /\ pc' = "panicked"
            /\ UNCHANGED store
       ELSE /\ store' = feed_of(account)
            /\ pc' = "open"
            /\ UNCHANGED ret
    /\ UNCHANGED <<account, overflow_checks, returned>>

\* Whether insert panics: an index outside a ring, or a remainder by zero.
insert_panics(s) ==
    \/ ~in_bounds(s.header.live_cursor, Len(s.live))
    \/ s.header.granularity = 0
    \/ /\ (s.header.latest_round_id + 1) % s.header.granularity = 0
       /\ ~in_bounds(s.header.historical_cursor, Len(s.historical))

\* store.insert(round) inside the closure.
Insert(round) ==
    /\ pc = "open"
    /\ returned.count + Len(inserted) < MaxInserts
    /\ IF insert_panics(store)
       THEN /\ ret' = InsertPanic(round)
            /\ pc' = "panicked"
            /\ UNCHANGED <<store, inserted>>
       ELSE /\ store' = insert(store, round)
            /\ inserted' = Append(inserted, round)
            /\ ret' = InsertCall(round)
            /\ UNCHANGED pc
    /\ UNCHANGED <<account, overflow_checks, calls, returned>>

\* A read that consumes: it moves the live cursor on, as a read taking
\* &mut self could.
read_advances_cursor(call) ==
    /\ ret' = call
    /\ pc' = IF call.result = Panic THEN "panicked" ELSE pc
    /\ store' = [store EXCEPT !.header.live_cursor = (@ + 1) % Len(store.live)]
    /\ UNCHANGED <<account, overflow_checks, calls, inserted, returned>>

\* A call that only reads the Feed; a panic ends the program.
Read(call) ==
    /\ ret' = call
    /\ pc' = IF call.result = Panic THEN "panicked" ELSE pc
    /\ UNCHANGED <<account, store, overflow_checks, calls, inserted, returned>>

\* store.latest() inside the closure.
Latest ==
    /\ pc = "open"
    /\ Read(LatestCall(latest(store)))

\* store.fetch(round_id) inside the closure.
Fetch(round_id) ==
    /\ pc = "open"
    /\ Read(FetchCall(round_id, fetch(store, round_id, overflow_checks)))

\* The closure returns and with_store returns Ok: the Feed, which holds
\* copies, is dropped; nothing is written to the buffer.
WithStoreReturn ==
    /\ pc = "open"
    /\ pc' = "idle"
    /\ store' = NoStore
    /\ returned' = AfterReturn(returned, inserted)
    /\ ret' = WithStoreCall(Ok(Unit))
    /\ UNCHANGED <<account, overflow_checks, calls, inserted>>

Next ==
    \/ WithStore
    \/ \E round \in Transmission : Insert(round)
    \/ Latest
    \/ \E round_id \in RoundIds : Fetch(round_id)
    \/ WithStoreReturn

Spec == Init /\ [][Next]_vars

(* ------------------------------- claims ------------------------------- *)

\* The Feed of the with_store call in progress exists and the program runs.
Open == pc = "open"

\* The ids the live ring still holds after N inserts: the last live.len() ones.
InLiveWindow(round_id) ==
    /\ round_id >= 1
    /\ Len(inserted) - Len(store.live) < round_id
    /\ round_id <= Len(inserted)

\* The largest multiple of granularity that is <= round_id.
RoundedDown(round_id) == round_id - (round_id % store.header.granularity)

\* The claims' historical_end, latest_round_id - latest_round_id mod granularity.
HistEnd ==
    store.header.latest_round_id
        - (store.header.latest_round_id % store.header.granularity)

\* The lower end of the claims' historical coverage (it may be negative).
HistLow == HistEnd - store.header.granularity * (Len(store.historical) - 1)

\* The ids whose records the historical ring holds: the multiples of
\* granularity written to it and not yet overwritten.
HeldByHistorical(id) ==
    /\ id >= 1
    /\ id % store.header.granularity = 0
    /\ id <= Len(inserted)
    /\ id > HistEnd - store.header.granularity * Len(store.historical)

\* C1 (live exactness): after N inserts into a Feed, for every round_id >= 1
\* with N - L < round_id <= N, fetch(round_id) returns exactly the record
\* passed to the round_id-th insert.
C1_LiveExactness ==
    Open => \A round_id \in RoundIds :
        InLiveWindow(round_id)
            => fetch(store, round_id, overflow_checks) = Some(inserted[round_id])

\* C1 in a build without overflow checks: there the live lookup is exact.
C1_LiveExactnessWrapping ==
    (Open /\ ~overflow_checks) => \A round_id \in RoundIds :
        InLiveWindow(round_id)
            => fetch(store, round_id, overflow_checks) = Some(inserted[round_id])

\* C2 (historical rounding): for every round_id >= 1 below the live window
\* and inside [historical_end - granularity * (capacity - 1), historical_end],
\* fetch(round_id) returns the record inserted with the id that is the
\* largest multiple of granularity <= round_id.
C2_HistoricalRounding ==
    Open => \A round_id \in RoundIds :
        (/\ round_id >= 1
         /\ round_id <= Len(inserted) - Len(store.live)
         /\ HistLow <= round_id
         /\ round_id <= HistEnd)
            => /\ RoundedDown(round_id) >= 1
               /\ fetch(store, round_id, overflow_checks)
                      = Some(inserted[RoundedDown(round_id)])

\* C2 for the ids whose rounded-down id was inserted (it is >= granularity),
\* in a build without overflow checks: there the historical lookup rounds down.
C2_HistoricalRoundingWrapping ==
    (Open /\ ~overflow_checks) => \A round_id \in RoundIds :
        (/\ round_id >= 1
         /\ round_id <= Len(inserted) - Len(store.live)
         /\ HistLow <= round_id
         /\ round_id <= HistEnd
         /\ RoundedDown(round_id) >= 1)
            => fetch(store, round_id, overflow_checks)
                   = Some(inserted[RoundedDown(round_id)])

\* C3 (eviction): for every round_id >= 1 that the live ring no longer holds
\* and whose rounded-down id is not held by the historical ring (overwritten,
\* or never written), fetch(round_id) returns absent.
C3_Eviction ==
    Open => \A round_id \in RoundIds :
        (/\ round_id >= 1
         /\ round_id <= Len(inserted) - Len(store.live)
         /\ ~HeldByHistorical(RoundedDown(round_id)))
            => fetch(store, round_id, overflow_checks) = None

\* C3 for the ids whose rounded-down id was once written to the historical
\* ring and has been overwritten: those are absent.
C3_EvictionOverwritten ==
    Open => \A round_id \in RoundIds :
        (/\ round_id >= 1
         /\ round_id <= Len(inserted) - Len(store.live)
         /\ RoundedDown(round_id) >= 1
         /\ ~HeldByHistorical(RoundedDown(round_id)))
            => fetch(store, round_id, overflow_checks) = None

\* C4: fetch(0) returns absent in every reachable store state.
C4_FetchZeroAbsent ==
    Open => fetch(store, 0, overflow_checks) = None

\* C5: fetch(round_id) returns absent for every round_id > latest_round_id,
\* in every reachable store state.
C5_FutureAbsent ==
    Open => \A round_id \in RoundIds :
        round_id > store.header.latest_round_id
            => fetch(store, round_id, overflow_checks) = None

\* C5's case: a Feed that holds rounds was asked for the id after the last
\* one, and the call returned absent.
C5_Witness ==
    /\ Open
    /\ store.header.latest_round_id >= 1
    /\ ret = FetchCall(store.header.latest_round_id + 1, None)

\* The slot the claims give for latest(): (live_cursor + live_length - 1) mod
\* live_length.
SlotBeforeCursor ==
    (store.header.live_cursor + store.header.live_length - 1)
        % store.header.live_length

\* C6: latest() returns absent if and only if latest_round_id = 0; otherwise
\* it returns the record passed to the most recent insert, which is the one
\* in slot (live_cursor + live_length - 1) mod live_length.
C6_Latest ==
    Open =>
        /\ (latest(store) = None) <=> (store.header.latest_round_id = 0)
        /\ store.header.latest_round_id # 0 =>
            /\ inserted # << >>
            /\ latest(store) = Some(inserted[Len(inserted)])
            /\ latest(store) = Some(store.live[SlotBeforeCursor + 1])

\* C6's case: latest() was called after the live ring wrapped around to
\* cursor 0, and returned the record of the most recent insert.
C6_Witness ==
    /\ Open
    /\ Len(inserted) > Len(store.live)
    /\ Len(store.live) >= 2
    /\ store.header.live_cursor = 0
    /\ ret = LatestCall(Some(inserted[Len(inserted)]))

\* C7 (monotonicity): every insert increases latest_round_id by exactly 1,
\* no other operation on the Feed changes it, and after N inserts into the
\* Feed derived from an empty store latest_round_id = N.
C7_Monotonicity ==
    /\ [](Open => store.header.latest_round_id = Len(inserted))
    /\ [][(store # NoStore /\ store' # NoStore) =>
            IF Len(inserted') = Len(inserted) + 1
            THEN store'.header.latest_round_id = store.header.latest_round_id + 1
            ELSE store'.header.latest_round_id = store.header.latest_round_id]_vars

\* C7's case: several inserts were made and the last call was an insert.
C7_Witness ==
    /\ Open
    /\ Len(inserted) >= 3
    /\ store.header.latest_round_id = Len(inserted)
    /\ ret = InsertCall(inserted[Len(inserted)])

\* The smaller of two numbers.
Min(a, b) == IF a <= b THEN a ELSE b

\* C8 (live ring content): the live ring holds exactly
\* min(latest_round_id, live_length) written records, they are the most
\* recently inserted ones (the i-th newest sits i slots before the cursor,
\* every other slot is still zeroed), and once the ring is full the slots
\* read from live_cursor forward, wrapping, are those records oldest to
\* newest.
C8_LiveRing ==
    Open =>
        LET N == store.header.latest_round_id
            L == Len(store.live)
            cursor == store.header.live_cursor
        IN /\ N = Len(inserted)
           /\ \A i \in 1 .. Min(N, L) :
                store.live[((cursor + L - i) % L) + 1] = inserted[N - i + 1]
           /\ N < L =>
                /\ cursor = N
                /\ \A slot \in N .. (L - 1) : store.live[slot + 1] = Default
           /\ N >= L =>
                \A j \in 0 .. (L - 1) :
                    store.live[((cursor + j) % L) + 1] = inserted[N - L + 1 + j]

\* C8's case: more records were inserted than the live ring holds, so the
\* ring wrapped and the oldest records were overwritten.
C8_Witness ==
    /\ Open
    /\ Len(store.live) >= 2
    /\ Len(inserted) > Len(store.live)
    /\ store.header.live_cursor # 0
    /\ inserted[Len(inserted)] # inserted[Len(inserted) - Len(store.live)]
    /\ ret = InsertCall(inserted[Len(inserted)])

\* C9 (historical admission): an insert writes the record into the
\* historical ring at the historical cursor and advances that cursor by 1
\* modulo the historical capacity if and only if the new round id is a
\* multiple of granularity; every other insert leaves the historical ring
\* and historical_cursor unchanged.
C9_HistoricalAdmission ==
    [][(store # NoStore /\ store' # NoStore /\ Len(inserted') = Len(inserted) + 1) =>
        LET round == inserted'[Len(inserted')]
            cursor == store.header.historical_cursor
        IN IF store'.header.latest_round_id % store.header.granularity = 0
           THEN /\ store'.historical = [store.historical EXCEPT ![cursor + 1] = round]
                /\ store'.header.historical_cursor
                       = (cursor + 1) % Len(store.historical)
           ELSE /\ store'.historical = store.historical
                /\ store'.header.historical_cursor = cursor]_vars

\* C9's case: with granularity 2 the fourth record was just inserted and
\* admitted to the historical ring, the third one was not.
C9_Witness ==
    /\ Open
    /\ store.header.granularity = 2
    /\ Len(store.historical) = 2
    /\ Len(inserted) = 4
    /\ inserted[3] # inserted[4]
    /\ store.historical = <<inserted[2], inserted[4]>>
    /\ ret = InsertCall(inserted[4])

\* C10 (insert mutates the buffer): after with_store calls that inserted
\* records have returned, the Feed a later with_store call derives from the
\* same buffer shows latest_round_id increased by the number of those
\* inserts, the live cursor advanced as often, and the last inserted record
\* as the result of latest().
C10_InsertPersists ==
    (Open /\ inserted = << >> /\ returned.count >= 1) =>
        /\ store.header.latest_round_id = returned.count
        /\ store.header.live_cursor = returned.count % Len(store.live)
        /\ latest(store) = Some(returned.last)

\* What the code does instead: the buffer is never written, so every
\* with_store call derives the Feed of the buffer as it was allocated.
C10_BufferNeverWritten ==
    /\ account.latest_round_id = 0
    /\ account.live_cursor = 0
    /\ account.historical_cursor = 0
    /\ \A i \in 1 .. Len(account.data) : account.data[i] = Default

(* -------------------------------- query ------------------------------- *)

\* Err(ProgramError::IllegalOwner)
IllegalOwner == [kind |-> "Err", error |-> "IllegalOwner"]

\* The scopes of a query.
Scope(name) == [name |-> name]
RoundData(round_id) == [name |-> "RoundData", round_id |-> round_id]

\* The closures query hands to with_store.
FetchClosure(round_id) == [name |-> "fetch", round_id |-> round_id]
LatestClosure == [name |-> "latest"]

\* f(&mut store) for the closures above.
call_closure(f, s, checks) ==
    IF f.name = "fetch" THEN fetch(s, f.round_id, checks) ELSE latest(s)

\* A with_store that splits the buffer before it looks at the version byte.
with_store_splits_first(acc, f, checks) ==
    IF malformed(acc)
    THEN Panic
    ELSE IF acc.version # FEED_VERSION
    THEN InvalidAccountData
    ELSE LET r == call_closure(f, feed_of(acc), checks)
         IN IF r = Panic THEN Panic ELSE Ok(r)

\* with_store(account, f): the version check, then the split of the buffer,
\* then the closure on the Feed made of the copies.
with_store(acc, f, checks) ==
    IF acc.version # FEED_VERSION
    THEN InvalidAccountData
    ELSE IF malformed(acc)
    THEN Panic
    ELSE LET r == call_closure(f, feed_of(acc), checks)
         IN IF r = Panic THEN Panic ELSE Ok(r)

\* Round { round_id, slot, answer, timestamp } of a record.
Round(round_id, t) ==
    [round_id |-> round_id, slot |-> t.slot, timestamp |-> t.timestamp,
     answer |-> t.answer]

\* Round::try_to_vec: the fields in the order the struct declares them.
round_to_vec(r) == <<r.round_id, r.slot, r.timestamp, r.answer>>

\* RoundWithDecimals::try_to_vec: the round, then the decimals byte.
round_with_decimals_to_vec(r, decimals) == round_to_vec(r) \o <<decimals>>

\* Round::deserialize
round_from_vec(v) ==
    [round_id |-> v[1], slot |-> v[2], timestamp |-> v[3], answer |-> v[4]]

\* RoundWithDecimals::deserialize
round_with_decimals_from_vec(v) ==
    [round |-> round_from_vec(SubSeq(v, 1, 4)), decimals |-> v[5]]

\* description.iter().position(|byte| byte == &0), scanning from slot i on;
\* -1 stands for Option::None.
RECURSIVE position_of_null(_, _)
position_of_null(bytes, i) ==
    IF i >= Len(bytes) THEN -1
    ELSE IF bytes[i + 1] = 0 THEN i
    ELSE position_of_null(bytes, i + 1)

\* The position of the first null or space byte, scanning from slot i on.
RECURSIVE position_of_blank(_, _)
position_of_blank(bytes, i) ==
    IF i >= Len(bytes) THEN -1
    ELSE IF bytes[i + 1] \in {0, 32} THEN i
    ELSE position_of_blank(bytes, i + 1)

\* A decode that ends the description at the first null or space byte.
description_to_blank(bytes) ==
    LET position == position_of_blank(bytes, 0)
        end == IF position = -1 THEN Len(bytes) ELSE position
    IN SubSeq(bytes, 1, end)

\* The Description scope: description[..end], end the position of the first
\* null byte, or the length of the field when there is none.
description_bytes(bytes) ==
    LET position == position_of_null(bytes, 0)
        end == IF position = -1 THEN Len(bytes) ELSE position
    IN SubSeq(bytes, 1, end)

\* The RoundData and LatestRoundData scopes once with_store has returned:
\* the round found, an error for an absent one, with_store's error otherwise.
round_or_error(found, round_id) ==
    IF found.kind # "Ok" THEN found
    ELSE IF found.value = None THEN InvalidAccountData
    ELSE Ok(round_to_vec(Round(round_id, found.value.value)))

\* The LatestRoundDataWithDecimals scope once with_store has returned.
round_with_decimals_or_error(found, round_id, decimals) ==
    IF found.kind # "Ok" THEN found
    ELSE IF found.value = None THEN InvalidAccountData
    ELSE Ok(round_with_decimals_to_vec(Round(round_id, found.value.value), decimals))

\* The LatestRoundDataWithDecimals2 scope: the version check, the split of
\* the buffer and the slot arithmetic of latest written out in place, with a
\* panic where latest returns None.
latest_with_decimals2(acc) ==
    IF acc.version # FEED_VERSION
    THEN InvalidAccountData
    ELSE IF malformed(acc)
    THEN Panic
    ELSE LET live == SubSeq(acc.data, 1, acc.live_length)
             transmission == deserialize(acc)
             len == transmission.live_length
             idx == (transmission.live_cursor + saturating_sub(len, 1)) % len
         IN IF transmission.latest_round_id = 0
            THEN Panic
            ELSE IF ~in_bounds(idx, Len(live))
            THEN Panic
            ELSE Ok(round_with_decimals_to_vec(
                        Round(acc.latest_round_id, live[idx + 1]), acc.decimals))

\* match scope { .. } of query.  checks: whether the build panics on integer
\* overflow.
match_scope(acc, scope, checks) ==
    IF scope.name = "Version"
    THEN Ok(<<acc.version>>)
    ELSE IF scope.name = "Decimals"
    THEN Ok(<<acc.decimals>>)
    ELSE IF scope.name = "Description"
    THEN Ok(description_bytes(acc.description))
    ELSE IF scope.name = "RoundData"
    THEN round_or_error(with_store(acc, FetchClosure(scope.round_id), checks),
                        scope.round_id)
    ELSE IF scope.name = "LatestRoundData"
    THEN round_or_error(with_store(acc, LatestClosure, checks),
                        acc.latest_round_id)
    ELSE IF scope.name = "Aggregator"
    THEN Ok(<<acc.writer>>)
    ELSE IF scope.name = "LatestRoundDataWithDecimals"
    THEN round_with_decimals_or_error(with_store(acc, LatestClosure, checks),
                                      acc.latest_round_id, acc.decimals)
    ELSE latest_with_decimals2(acc)

\* A query that reads the buffer first and looks at the owner afterwards.
query_owner_last(acc, scope, checks) ==
    LET read == match_scope(acc, scope, checks)
    IN IF read.kind # "Ok" THEN read
       ELSE IF acc.owner # CHAINLINK_STORE_PROGRAM THEN IllegalOwner
       ELSE read

\* query(feed, scope): the owner check, then the scope.
query(acc, scope, checks) ==
    IF acc.owner # CHAINLINK_STORE_PROGRAM
    THEN IllegalOwner
    ELSE match_scope(acc, scope, checks)

\* query(feed, scope)? followed by T::deserialize: an error or a panic of
\* the query is passed on.
deserialized(result, kind) ==
    IF result.kind # "Ok" THEN result
    ELSE IF kind = "Round" THEN Ok(round_from_vec(result.value))
    ELSE Ok(round_with_decimals_from_vec(result.value))

\* Returns round data for the latest round.
latest_round_data(acc, checks) ==
    deserialized(query(acc, Scope("LatestRoundData"), checks), "Round")

\* Returns round data for the latest round, including decimal value
latest_round_data_with_decimals(acc, checks) ==
    deserialized(query(acc, Scope("LatestRoundDataWithDecimals"), checks),
                 "RoundWithDecimals")

\* same as latest_round_data_with_decimals but attempts to reduce the number
\* of allocations
latest_round_data_with_decimals2(acc, checks) ==
    deserialized(query(acc, Scope("LatestRoundDataWithDecimals2"), checks),
                 "RoundWithDecimals")

(* ------------------------- the query machine -------------------------- *)

\* The record with slot = answer = timestamp = i, as the fixture inserts it.
RoundOf(i) == [slot |-> i, timestamp |-> i, answer |-> i]

\* The records the feed's writer inserted to produce a buffer holding k rounds.
HostedRounds(k) == [i \in 1 .. k |-> RoundOf(i)]

\* The Feed after the writer inserted k rounds into a fresh buffer.
RECURSIVE HostedFeed(_, _)
HostedFeed(acc, k) ==
    IF k = 0 THEN feed_of(acc) ELSE insert(HostedFeed(acc, k - 1), RoundOf(k))

\* The buffer holding what the writer's Feed holds: a feed account as it is
\* found on the ledger.
HostedAccount(acc, k) ==
    LET feed == HostedFeed(acc, k)
    IN [acc EXCEPT !.latest_round_id = feed.header.latest_round_id,
                   !.live_cursor = feed.header.live_cursor,
                   !.historical_cursor = feed.header.historical_cursor,
                   !.data = feed.live \o feed.historical]

\* A buffer cut or padded so that the rings cannot be taken out of it:
\* "slack" leaves bytes after the last whole record, "short" holds fewer
\* records than live_length.
Damaged(acc, damage) ==
    IF damage = "slack" THEN [acc EXCEPT !.slack = 1]
    ELSE IF damage = "short"
    THEN [acc EXCEPT !.data = SubSeq(@, 1, acc.live_length - 1)]
    ELSE acc

\* "BTC / USD" followed by null bytes, the description of the feed the
\* repository's test reads.
BtcUsd ==
    [i \in 1 .. DESCRIPTION_LEN |->
        IF i <= 9 THEN <<66, 84, 67, 32, 47, 32, 85, 83, 68>>[i] ELSE 0]

\* The description bytes that vary: null, space and a letter.
DescriptionBytes == {0, 32, 66}

\* The sequences over a set with exactly n elements.
SeqsOfLen(S, n) == [1 .. n -> S]

\* The description fields: a short prefix of varying bytes, then one fill
\* byte (null or a letter) up to the length of the field.
Descriptions ==
    {[i \in 1 .. DESCRIPTION_LEN |-> IF i <= Len(prefix) THEN prefix[i] ELSE fill] :
        prefix \in UNION {SeqsOfLen(DescriptionBytes, n) : n \in 0 .. MaxDescriptionPrefix},
        fill \in {0, 66}}

Owners == {CHAINLINK_STORE_PROGRAM, "11111111111111111111111111111111"}

\* The feed accounts handed to query: accounts holding 0 .. MaxInserts rounds
\* for every ring geometry, owner, version byte and decimals, well formed or
\* damaged, all described "BTC / USD"; and accounts holding no round with
\* every description.
QueryInit ==
    /\ \/ \E owner \in Owners,
             version \in {FEED_VERSION - 1, FEED_VERSION},
             live_length \in 1 .. MaxLive,
             historical_length \in 1 .. MaxHist,
             granularity \in 1 .. MaxGranularity,
             k \in 0 .. MaxInserts,
             damage \in {"none", "slack", "short"},
             decimals \in {8, 18} :
               /\ account =
                    Damaged(
                      [HostedAccount(
                          FreshAccount(version, live_length, historical_length, granularity), k)
                        EXCEPT !.owner = owner, !.decimals = decimals,
                               !.description = BtcUsd],
                      damage)
               /\ inserted = HostedRounds(k)
       \/ \E owner \in Owners,
             version \in {FEED_VERSION - 1, FEED_VERSION},
             description \in Descriptions :
               /\ account =
                    [FreshAccount(version, 1, 1, 1)
                        EXCEPT !.owner = owner, !.description = description]
               /\ inserted = << >>
    /\ store = NoStore
    /\ pc = "idle"
    /\ ret = NoCall
    /\ overflow_checks \in BOOLEAN
    /\ calls = 0
    /\ returned = NoneReturned

Scopes ==
    {Scope(name) : name \in {"Version", "Decimals", "Description", "LatestRoundData",
                             "Aggregator", "LatestRoundDataWithDecimals",
                             "LatestRoundDataWithDecimals2"}}
        \cup {RoundData(round_id) : round_id \in RoundIds}

\* The record of a call on the account, kept in ret.
QueryCall(scope, result) == [op |-> "query", scope |-> scope, result |-> result]
ClientCall(name, result) == [op |-> name, result |-> result]

\* A call on the account returns; a panic ends the program.
Returns(call) ==
    /\ ret' = call
    /\ pc' = IF call.result = Panic THEN "panicked" ELSE pc
    /\ UNCHANGED <<account, store, overflow_checks, calls, inserted, returned>>

\* query(feed, scope)
CallQuery(scope) ==
    /\ pc = "idle"
    /\ Returns(QueryCall(scope, query(account, scope, overflow_checks)))

\* latest_round_data(feed)
CallLatestRoundData ==
    /\ pc = "idle"
    /\ Returns(ClientCall("latest_round_data",
                       latest_round_data(account, overflow_checks)))

\* latest_round_data_with_decimals(feed)
CallLatestRoundDataWithDecimals ==
    /\ pc = "idle"
    /\ Returns(ClientCall("latest_round_data_with_decimals",
                       latest_round_data_with_decimals(account, overflow_checks)))

\* latest_round_data_with_decimals2(feed)
CallLatestRoundDataWithDecimals2 ==
    /\ pc = "idle"
    /\ Returns(ClientCall("latest_round_data_with_decimals2",
                       latest_round_data_with_decimals2(account, overflow_checks)))

QueryNext ==
    \/ \E scope \in Scopes : CallQuery(scope)
    \/ CallLatestRoundData
    \/ CallLatestRoundDataWithDecimals
    \/ CallLatestRoundDataWithDecimals2

QuerySpec == QueryInit /\ [][QueryNext]_vars

(* --------------------------- claims C11 - C20 -------------------------- *)

\* C11 (idempotent reads): a fetch or latest call leaves the header
\* (latest_round_id, cursors, lengths), the live ring and the historical
\* ring unchanged, in the Feed and in the buffer, and a call repeated with
\* the same argument, no insert in between, returns the same result.
C11_IdempotentReads ==
    [][(pc = "open" /\ ret'.op \in {"fetch", "latest"}) =>
        /\ store' = store
        /\ account' = account
        /\ inserted' = inserted
        /\ (/\ ret.op = ret'.op
            /\ ret.op = "fetch" => ret.round_id = ret'.round_id)
                => ret'.result = ret.result]_vars

\* C11's case: a fetch answered with a record after the live ring wrapped.
C11_Witness ==
    /\ Open
    /\ Len(inserted) > Len(store.live)
    /\ ret.op = "fetch"
    /\ ret.round_id \in 1 .. Len(inserted)
    /\ ret.result = Some(inserted[ret.round_id])

\* The scopes query serves through with_store, and the closures it passes.
StoreScopes == {"RoundData", "LatestRoundData", "LatestRoundDataWithDecimals"}
Closures == {LatestClosure} \cup {FetchClosure(round_id) : round_id \in RoundIds}

\* A query of the account owned by the store program has returned.
Queried == ret.op = "query" /\ account.owner = CHAINLINK_STORE_PROGRAM

\* C12: when the version byte differs from FEED_VERSION, with_store returns
\* the error InvalidAccountData for every closure and every buffer content,
\* a buffer whose rings cannot be split included (so the rings were not
\* sliced and the closure was not called); so do the scopes of query that go
\* through with_store, and the LatestRoundDataWithDecimals2 scope with its
\* own version check.
C12_VersionMismatch ==
    account.version # FEED_VERSION =>
        /\ \A f \in Closures :
              with_store(account, f, overflow_checks) = InvalidAccountData
        /\ latest_with_decimals2(account) = InvalidAccountData
        /\ (Queried /\ ret.scope.name \in StoreScopes \cup {"LatestRoundDataWithDecimals2"})
              => ret.result = InvalidAccountData

C12_Witness ==
    /\ Queried
    /\ ret.scope.name = "RoundData"
    /\ account.version # FEED_VERSION
    /\ malformed(account)
    /\ Len(inserted) > 0
    /\ ret.result = InvalidAccountData

\* The account decodes: the version is the expected one and the rings can be
\* split out of the buffer.
Decodes == account.version = FEED_VERSION /\ ~malformed(account)

\* C13: on a buffer with the expected version that is too short for
\* live_length records, or that has bytes left after the last whole record,
\* with_store returns an error, and so does every scope of query that goes
\* through it; none of them panics.
C13_MalformedIsError ==
    (account.version = FEED_VERSION /\ malformed(account)) =>
        /\ \A f \in Closures : with_store(account, f, overflow_checks).kind = "Err"
        /\ (Queried /\ ret.scope.name \in StoreScopes) => ret.result.kind = "Err"

\* What the code does instead: every such call panics.
C13_MalformedPanics ==
    (account.version = FEED_VERSION /\ malformed(account)) =>
        /\ \A f \in Closures : with_store(account, f, overflow_checks) = Panic
        /\ (Queried /\ ret.scope.name \in StoreScopes) => ret.result = Panic

\* C14: on every account owned by the store program the three latest-round
\* functions agree: latest_round_data_with_decimals2 returns what
\* latest_round_data_with_decimals returns (the same round and decimals, or
\* the same error, the empty store included), and the round of both is the
\* result of latest_round_data.
C14_LatestQueriesAgree ==
    account.owner = CHAINLINK_STORE_PROGRAM =>
        LET plain == latest_round_data(account, overflow_checks)
            with == latest_round_data_with_decimals(account, overflow_checks)
            with2 == latest_round_data_with_decimals2(account, overflow_checks)
        IN /\ with2 = with
           /\ IF with.kind = "Ok"
              THEN plain = Ok(with.value.round)
              ELSE plain = with

\* The three functions do agree on every account that holds a round.
C14_AgreeOnHeldRounds ==
    account.latest_round_id # 0 => C14_LatestQueriesAgree

\* The round a successful query returned.
ReturnedRound == round_from_vec(ret.result.value)

\* The round r is one the writer inserted, under the id it was given.
WasInserted(r) ==
    /\ r.round_id \in 1 .. Len(inserted)
    /\ Round(r.round_id, inserted[r.round_id]) = r

\* C15 (errors): on an account that decodes, query(RoundData{round_id}) is an
\* error exactly when fetch(round_id) is None, and query(LatestRoundData) is
\* an error exactly when latest_round_id is 0.
C15_ErrorExactlyWhenAbsent ==
    (Queried /\ Decodes) =>
        /\ ret.scope.name = "RoundData" =>
              (ret.result.kind = "Err"
                 <=> fetch(feed_of(account), ret.scope.round_id, overflow_checks) = None)
        /\ ret.scope.name = "LatestRoundData" =>
              (ret.result.kind = "Err" <=> account.latest_round_id = 0)

\* C15: absent results are errors (above), and a round returned as a success
\* by query(RoundData{round_id}) or query(LatestRoundData) was inserted; it
\* is never a default record.
C15_AbsentIsError ==
    /\ C15_ErrorExactlyWhenAbsent
    /\ (/\ Queried
        /\ ret.scope.name \in {"RoundData", "LatestRoundData"}
        /\ ret.result.kind = "Ok") => WasInserted(ReturnedRound)

\* C16: for every scope, query on an account whose owner is not
\* CHAINLINK_STORE_PROGRAM returns IllegalOwner, whatever the version byte
\* and the rest of the buffer are (a wrong version and a buffer that cannot
\* be split included: neither is looked at); the client functions built on
\* query return the same error.
C16_OwnerCheckFirst ==
    account.owner # CHAINLINK_STORE_PROGRAM =>
        /\ \A scope \in Scopes : query(account, scope, overflow_checks) = IllegalOwner
        /\ ret.op # "none" => ret.result = IllegalOwner

C16_Witness ==
    /\ ret.op = "query"
    /\ ret.scope.name = "LatestRoundData"
    /\ account.owner # CHAINLINK_STORE_PROGRAM
    /\ account.version # FEED_VERSION
    /\ malformed(account)
    /\ ret.result = IllegalOwner

\* C17: the Description query returns a prefix of the 32-byte field that
\* holds no null byte and ends right before the first null byte of the
\* field, or is the whole field when the field holds none; a space does
\* not end it.
C17_DescriptionDecode ==
    (Queried /\ ret.scope.name = "Description") =>
        /\ ret.result.kind = "Ok"
        /\ LET field == account.description
               text == ret.result.value
           IN /\ Len(field) = DESCRIPTION_LEN
              /\ Len(text) <= Len(field)
              /\ text = SubSeq(field, 1, Len(text))
              /\ \A i \in 1 .. Len(text) : text[i] # 0
              /\ Len(text) = Len(field) \/ field[Len(text) + 1] = 0

\* "BTC / USD", spaces included, is returned whole.
C17_Witness ==
    /\ Queried
    /\ ret.scope.name = "Description"
    /\ account.description = BtcUsd
    /\ ret.result = Ok(<<66, 84, 67, 32, 47, 32, 85, 83, 68>>)

\* A field without a null byte is returned whole.
C17_WitnessWholeField ==
    /\ Queried
    /\ ret.scope.name = "Description"
    /\ \A i \in 1 .. DESCRIPTION_LEN : account.description[i] # 0
    /\ ret.result = Ok(account.description)

\* C18: in every store reached by inserts (capacities and granularity at
\* least 1) and for every round_id, fetch evaluates no subtraction that
\* overflows, the argument of unwrap_or included, and neither fetch nor
\* latest nor insert indexes a ring out of bounds.  fetch is evaluated as
\* the overflow-checking build evaluates it, where an overflow is a panic.
C18_TotalIndexArithmetic ==
    Open =>
        /\ \A round_id \in RoundIds : fetch(store, round_id, TRUE) # Panic
        /\ latest(store) # Panic
        /\ ~insert_panics(store)

\* The part of C18 that holds: latest and insert are total, and so is fetch
\* where overflow wraps.
C18_TotalWhenWrapping ==
    Open =>
        /\ \A round_id \in RoundIds : fetch(store, round_id, FALSE) # Panic
        /\ latest(store) # Panic
        /\ ~insert_panics(store)

\* C19: whenever fetch(round_id) returns a round, that round was inserted
\* under an id that is at most round_id.
C19_NeverFutureSample ==
    (Open /\ ret.op = "fetch" /\ ret.result.kind = "Some") =>
        \E id \in 1 .. Min(ret.round_id, Len(inserted)) :
            inserted[id] = ret.result.value

\* C20: in every store reached by inserts from the empty store,
\* live_cursor = latest_round_id mod live_length and historical_cursor =
\* floor(latest_round_id / granularity) mod the historical capacity; both
\* cursors are below the capacity of their ring.
C20_CursorInvariant ==
    Open =>
        /\ store.header.live_cursor
              = store.header.latest_round_id % Len(store.live)
        /\ store.header.historical_cursor
              = (store.header.latest_round_id \div store.header.granularity)
                  % Len(store.historical)
        /\ store.header.live_length = Len(store.live)
        /\ store.header.live_cursor \in 0 .. Len(store.live) - 1
        /\ store.header.historical_cursor \in 0 .. Len(store.historical) - 1

\* Both rings have wrapped and both cursors are away from slot 0.
C20_Witness ==
    /\ Open
    /\ Len(store.live) > 1
    /\ Len(store.historical) > 1
    /\ store.header.latest_round_id > Len(store.live)
    /\ store.header.latest_round_id \div store.header.granularity > Len(store.historical)
    /\ store.header.live_cursor # 0
    /\ store.header.historical_cursor # 0

(* ------------------------------ claim C21 ------------------------------ *)

\* C21: in every store reached by inserts that holds a round
\* (latest_round_id >= 1), latest() returns the round that
\* fetch(latest_round_id) returns, at every position of the live cursor,
\* slot 0 after a wrap included.
C21_LatestIsFetchLatest ==
    (Open /\ store.header.latest_round_id >= 1) =>
        latest(store)
            = fetch(store, store.header.latest_round_id, overflow_checks)

\* The part of C21 that holds: where overflow wraps, the two agree, and both
\* return the round inserted last.
C21_AgreeWhenWrapping ==
    (Open /\ store.header.latest_round_id >= 1) =>
        /\ latest(store) = fetch(store, store.header.latest_round_id, FALSE)
        /\ latest(store) = Some(inserted[Len(inserted)])

\* The two agree in the overflow-checking build too while the live cursor
\* is at slot 0 or 1, where offset - live_cursor does not underflow.
C21_AgreeAtLowCursor ==
    (Open /\ store.header.latest_round_id >= 1 /\ store.header.live_cursor <= 1) =>
        latest(store) = fetch(store, store.header.latest_round_id, TRUE)

====
